---- MODULE Spec2Model ----
(***************************************************************************)
(* pconcat: pjoin (subprocess stdout) and s3pjoin (remote object body).    *)
(* Input records are mapped to producer workers through                    *)
(* stream::iter(lines).map(spawn).buffered(parallel_count); the main       *)
(* thread drains every worker's sync_channel in input order, hands each    *)
(* chunk to write_fn and joins the worker.                                 *)
(*                                                                         *)
(* A chunk is a slice of one task's byte stream: [task, from, len] stands  *)
(* for the bytes from .. from+len-1 of the output of task `task`.          *)
(***************************************************************************)
EXTENDS Integers, Sequences, FiniteSets, TLC

\* ------------------------------------------------------------- bounds
MaxTasks == 3
MaxParallel == 2
MaxSplice == 2
MaxWriterTasks == 2
MaxLiveTasks == 2

\* ------------------------------------------------- program constants
CHUNK_BUFFER_SIZE == 2097152

VARIABLES
    variant,            \* "pjoin" or "s3pjoin": which binary runs
    parallel_count,     \* args.parallel_count
    buffer_size,        \* args.buffer_size
    output_file,        \* args.output_file is Some(path): the file writer is used
    records,            \* number of lines on stdin
    pc,                 \* position of the main thread
    stream_done,        \* the Fuse around the mapped line stream saw None
    launched,           \* number of workers spawned so far (tasks 1..launched)
    in_progress_queue,  \* Buffered's queue: launched tasks not yet yielded
    cur,                \* task whose (rx, thread_join) the drain loop holds
    chunk,              \* chunk received by the drain loop, being written
    written,            \* chunks appended to the destination, in order
    bytes_written,      \* bytes of `chunk` the destination has accepted so far
    outcome,            \* why the main thread panicked, if it did
    wpc,                \* per task: position of its worker thread
    srcEof,             \* per task: its source has reached end of stream
    srcPos,             \* per task: bytes the worker has taken from the source
    bytes_read,         \* per task: length of the buffer the worker holds
    chan,               \* per task: chunks buffered in its sync_channel
    cap,                \* per task: bound the sync_channel was created with
    joined              \* per task: thread_join.join() has returned

vars == <<variant, parallel_count, buffer_size, output_file, records, pc,
          stream_done, launched, in_progress_queue, cur, chunk, written,
          bytes_written, outcome, wpc,
          srcEof, srcPos, bytes_read, chan, cap, joined>>

argVars == <<variant, parallel_count, buffer_size, output_file, records>>
workerVars == <<wpc, srcEof, srcPos, bytes_read, chan, cap>>

Tasks == 1..MaxTasks

Min(a, b) == IF a < b THEN a ELSE b

NoChunk == [task |-> 0, from |-> 0, len |-> 0]
NoOutcome == [task |-> 0, kind |-> "none"]

\* Values a run may be started with.
BufferSizes == {CHUNK_BUFFER_SIZE - 1, CHUNK_BUFFER_SIZE, 2 * CHUNK_BUFFER_SIZE + 1}
\* The most a source produces: one full chunk and one byte more.
OutLimit == CHUNK_BUFFER_SIZE + 1

\* Faulty variant: the capacity clamped to at least 1.
ChannelCapacityClamped(b) == IF b \div CHUNK_BUFFER_SIZE < 1 THEN 1 ELSE b \div CHUNK_BUFFER_SIZE
\* sync_channel(args.buffer_size / CHUNK_BUFFER_SIZE): usize division.
ChannelCapacity(b) == b \div CHUNK_BUFFER_SIZE

\* Faulty variant: the fill loop admits one future too many.
WindowHasRoomInclusive == Len(in_progress_queue) <= parallel_count
\* Buffered::poll_next: while in_progress_queue.len() < max.
WindowHasRoom == Len(in_progress_queue) < parallel_count

\* The process runs until main returns or the main thread panics.
ProcessAlive == pc \notin {"done", "panicked"}

\* The state main starts in, whatever the arguments are.
InitRun ==
    /\ variant \in {"pjoin", "s3pjoin"}
    /\ pc = "args"
    /\ stream_done = FALSE
    /\ launched = 0
    /\ in_progress_queue = <<>>
    /\ cur = 0
    /\ chunk = NoChunk
    /\ written = <<>>
    /\ bytes_written = 0
    /\ outcome = NoOutcome
    /\ wpc = [i \in Tasks |-> "none"]
    /\ srcEof = [i \in Tasks |-> FALSE]
    /\ srcPos = [i \in Tasks |-> 0]
    /\ bytes_read = [i \in Tasks |-> 0]
    /\ chan = [i \in Tasks |-> <<>>]
    /\ cap = [i \in Tasks |-> 0]
    /\ joined = [i \in Tasks |-> FALSE]

\* Runs that name an output file (the file writer), with any parallel_count.
Init ==
    /\ parallel_count \in 0..MaxParallel
    /\ buffer_size \in BufferSizes
    /\ output_file = TRUE
    /\ records \in 0..MaxTasks
    /\ InitRun

\* Runs with either destination: one worker at a time, channels of one
\* chunk, at most MaxWriterTasks records.
InitWriter ==
    /\ parallel_count = 1
    /\ buffer_size = CHUNK_BUFFER_SIZE
    /\ output_file \in BOOLEAN
    /\ records \in 0..MaxWriterTasks
    /\ InitRun

\* ------------------------------------------------------- main thread

\* Args::parse(): parallel_count and buffer_size are any usize.
ParseArgs ==
    /\ pc = "args"
    /\ pc' = "poll"
    /\ UNCHANGED <<argVars, bytes_written, stream_done, launched, in_progress_queue, cur, chunk,
                   written, outcome, workerVars, joined>>

\* The map closure panics on a record it cannot turn into a task.
AdmitParseFail ==
    /\ pc = "poll" /\ ~stream_done /\ WindowHasRoom
    /\ launched < records
    /\ pc' = "panicked"
    /\ outcome' = [task |-> launched + 1, kind |-> "parse"]
    /\ UNCHANGED <<argVars, bytes_written, stream_done, launched, in_progress_queue, cur, chunk,
                   written, workerVars, joined>>

\* pjoin: command_builder.spawn() returns Err and the closure panics.
AdmitLaunchFail ==
    /\ pc = "poll" /\ ~stream_done /\ WindowHasRoom
    /\ launched < records
    /\ variant = "pjoin"
    /\ pc' = "panicked"
    /\ outcome' = [task |-> launched + 1, kind |-> "launch"]
    /\ UNCHANGED <<argVars, bytes_written, stream_done, launched, in_progress_queue, cur, chunk,
                   written, workerVars, joined>>

\* The map closure creates the channel, spawns the worker and the ready
\* future is pushed on Buffered's queue.
AdmitSpawn ==
    /\ pc = "poll" /\ ~stream_done /\ WindowHasRoom
    /\ launched < records
    /\ LET i == launched + 1 IN
           /\ launched' = i
           /\ cap' = [cap EXCEPT ![i] = ChannelCapacity(buffer_size)]
           /\ wpc' = [wpc EXCEPT ![i] = IF variant = "pjoin" THEN "read" ELSE "fetch"]
           /\ in_progress_queue' = Append(in_progress_queue, i)
    /\ UNCHANGED <<argVars, bytes_written, pc, stream_done, cur, chunk, written, outcome,
                   srcEof, srcPos, bytes_read, chan, joined>>

\* stdin_buf.lines() is exhausted: the fused stream is done.
StreamEnd ==
    /\ pc = "poll" /\ ~stream_done /\ WindowHasRoom
    /\ launched = records
    /\ stream_done' = TRUE
    /\ UNCHANGED <<argVars, bytes_written, pc, launched, in_progress_queue, cur, chunk, written,
                   outcome, workerVars, joined>>

\* Faulty variant: the newest future is yielded instead of the front one.
YieldNewest ==
    /\ pc = "poll"
    /\ ~WindowHasRoom \/ stream_done
    /\ IF in_progress_queue # <<>>
         THEN /\ cur' = in_progress_queue[Len(in_progress_queue)]
              /\ in_progress_queue' = SubSeq(in_progress_queue, 1, Len(in_progress_queue) - 1)
              /\ pc' = "recv"
         ELSE /\ pc' = IF stream_done THEN "done" ELSE "hung"
              /\ UNCHANGED <<cur, in_progress_queue>>
    /\ UNCHANGED <<argVars, bytes_written, stream_done, launched, chunk, written, outcome,
                   workerVars, joined>>

\* Faulty variant: a queued future is yielded before the window is full.
YieldBeforeFill ==
    /\ pc = "poll"
    /\ in_progress_queue # <<>> \/ ~WindowHasRoom \/ stream_done
    /\ IF in_progress_queue # <<>>
         THEN /\ cur' = Head(in_progress_queue)
              /\ in_progress_queue' = Tail(in_progress_queue)
              /\ pc' = "recv"
         ELSE /\ pc' = IF stream_done THEN "done" ELSE "hung"
              /\ UNCHANGED <<cur, in_progress_queue>>
    /\ UNCHANGED <<argVars, bytes_written, stream_done, launched, chunk, written, outcome,
                   workerVars, joined>>

\* Buffered::poll_next after the fill loop: the front ready future is
\* yielded; with an empty queue the stream ends if the input is done and is
\* Pending otherwise (nothing will wake the main thread again).
YieldNext ==
    /\ pc = "poll"
    /\ ~WindowHasRoom \/ stream_done
    /\ IF in_progress_queue # <<>>
         THEN /\ cur' = Head(in_progress_queue)
              /\ in_progress_queue' = Tail(in_progress_queue)
              /\ pc' = "recv"
         ELSE /\ pc' = IF stream_done THEN "done" ELSE "hung"
              /\ UNCHANGED <<cur, in_progress_queue>>
    /\ UNCHANGED <<argVars, bytes_written, stream_done, launched, chunk, written, outcome,
                   workerVars, joined>>

\* Faulty variant: recv takes the chunk pushed last.
RecvNewest ==
    /\ pc = "recv"
    /\ chan[cur] # <<>>
    /\ chunk' = chan[cur][Len(chan[cur])]
    /\ chan' = [chan EXCEPT ![cur] = SubSeq(@, 1, Len(@) - 1)]
    /\ pc' = "write"
    /\ UNCHANGED <<argVars, bytes_written, stream_done, launched, in_progress_queue, cur, written,
                   outcome, wpc, srcEof, srcPos, bytes_read, cap, joined>>

\* rx.recv() returns Ok(chunk): a buffered chunk is taken.
Recv ==
    /\ pc = "recv"
    /\ chan[cur] # <<>>
    /\ chunk' = Head(chan[cur])
    /\ chan' = [chan EXCEPT ![cur] = Tail(chan[cur])]
    /\ pc' = "write"
    /\ UNCHANGED <<argVars, bytes_written, stream_done, launched, in_progress_queue, cur, written,
                   outcome, wpc, srcEof, srcPos, bytes_read, cap, joined>>

\* Faulty variant: recv fails as soon as the sender is gone, whatever the
\* channel still holds.
RecvDisconnectedEarly ==
    /\ pc = "recv"
    /\ wpc[cur] \in {"done", "panicked"}
    /\ pc' = "join"
    /\ UNCHANGED <<argVars, bytes_written, stream_done, launched, in_progress_queue, cur, chunk,
                   written, outcome, workerVars, joined>>

\* rx.recv() returns Err: the channel is empty and the sender was dropped.
RecvDisconnected ==
    /\ pc = "recv"
    /\ chan[cur] = <<>>
    /\ wpc[cur] \in {"done", "panicked"}
    /\ pc' = "join"
    /\ UNCHANGED <<argVars, bytes_written, stream_done, launched, in_progress_queue, cur, chunk,
                   written, outcome, workerVars, joined>>

\* (write_fn)(chunk) with an output file: file.write_all(&chunk) appends
\* the whole chunk to the file.
WriteChunk ==
    /\ pc = "write"
    /\ output_file
    /\ written' = Append(written, chunk)
    /\ chunk' = NoChunk
    /\ pc' = "recv"
    /\ UNCHANGED <<argVars, bytes_written, stream_done, launched, in_progress_queue, cur, outcome,
                   workerVars, joined>>

\* The part of chunk c that starts n bytes in and is k bytes long.
Slice(c, n, k) == [task |-> c.task, from |-> c.from + n, len |-> k]

\* Faulty variant: the failed write is recorded but the drain loop goes on to
\* the next chunk.
WriteFailContinue ==
    /\ pc = "write"
    /\ output_file
    /\ outcome' = [task |-> cur, kind |-> "writer"]
    /\ pc' = "recv"
    /\ chunk' = NoChunk
    /\ UNCHANGED <<argVars, bytes_written, stream_done, launched, in_progress_queue, cur,
                   written, workerVars, joined>>

\* file.write_all(&chunk).unwrap() on an I/O error: the main thread panics;
\* the file may have taken the first bytes of the chunk before the error.
WriteFail ==
    /\ pc = "write"
    /\ output_file
    /\ \E n \in {0} \cup (IF chunk.len > 1 THEN {1} ELSE {}) :
         /\ bytes_written' = n
         /\ written' = IF n > 0 THEN Append(written, Slice(chunk, 0, n)) ELSE written
    /\ pc' = "panicked"
    /\ outcome' = [task |-> cur, kind |-> "writer"]
    /\ UNCHANGED <<argVars, stream_done, launched, in_progress_queue, cur, chunk,
                   workerVars, joined>>

\* Faulty variant: every transfer starts at the beginning of the chunk.
VmspliceFromStart ==
    /\ pc = "write"
    /\ ~output_file
    /\ bytes_written < chunk.len
    /\ LET rest == chunk.len - bytes_written IN
         \E sz \in {rest} \cup (IF rest > 1 /\ bytes_written < MaxSplice THEN {1} ELSE {}) :
           /\ written' = Append(written, Slice(chunk, 0, sz))
           /\ IF bytes_written + sz < chunk.len
                THEN bytes_written' = bytes_written + sz /\ UNCHANGED <<pc, chunk>>
                ELSE bytes_written' = 0 /\ chunk' = NoChunk /\ pc' = "recv"
    /\ UNCHANGED <<argVars, stream_done, launched, in_progress_queue, cur, outcome,
                   workerVars, joined>>

\* (write_fn)(chunk) without an output file: one turn of
\* `while bytes_written < chunk_size`, in which vmsplice takes sz bytes of
\* chunk[bytes_written..] (all of them, or one byte for each of the first
\* MaxSplice bytes of a chunk); write_fn returns when the loop ends.
Vmsplice ==
    /\ pc = "write"
    /\ ~output_file
    /\ bytes_written < chunk.len
    /\ LET rest == chunk.len - bytes_written IN
         \E sz \in {rest} \cup (IF rest > 1 /\ bytes_written < MaxSplice THEN {1} ELSE {}) :
           /\ written' = Append(written, Slice(chunk, bytes_written, sz))
           /\ IF bytes_written + sz < chunk.len
                THEN bytes_written' = bytes_written + sz /\ UNCHANGED <<pc, chunk>>
                ELSE bytes_written' = 0 /\ chunk' = NoChunk /\ pc' = "recv"
    /\ UNCHANGED <<argVars, stream_done, launched, in_progress_queue, cur, outcome,
                   workerVars, joined>>

\* vmsplice returns Err(e) => panic!: the main thread panics.
VmspliceErr ==
    /\ pc = "write"
    /\ ~output_file
    /\ pc' = "panicked"
    /\ outcome' = [task |-> cur, kind |-> "writer"]
    /\ UNCHANGED <<argVars, bytes_written, stream_done, launched, in_progress_queue,
                   cur, chunk, written, workerVars, joined>>

\* Faulty variant: the result of join() is dropped instead of unwrapped.
JoinIgnoringPanic ==
    /\ pc = "join"
    /\ wpc[cur] \in {"done", "panicked"}
    /\ joined' = [joined EXCEPT ![cur] = TRUE]
    /\ pc' = "poll"
    /\ UNCHANGED <<argVars, bytes_written, stream_done, launched, in_progress_queue, cur, chunk,
                   written, outcome, workerVars>>

\* thread_join.join().unwrap(): returns once the worker ended; a worker
\* that panicked makes the main thread panic.
Join ==
    /\ pc = "join"
    /\ wpc[cur] \in {"done", "panicked"}
    /\ joined' = [joined EXCEPT ![cur] = TRUE]
    /\ IF wpc[cur] = "done"
         THEN pc' = "poll" /\ UNCHANGED outcome
         ELSE pc' = "panicked" /\ outcome' = [task |-> cur, kind |-> "source"]
    /\ UNCHANGED <<argVars, bytes_written, stream_done, launched, in_progress_queue, cur, chunk,
                   written, workerVars>>

\* ----------------------------------------------------- worker threads

\* The buffer the worker of task i holds, as a slice of the task's output.
Buffer(i) == [task |-> i, from |-> srcPos[i] - bytes_read[i], len |-> bytes_read[i]]

\* Where a worker continues after tx.send.
AfterSend == IF variant = "pjoin" THEN "read" ELSE "body"

\* Lengths one delivery of the source can have when at most m bytes fit:
\* everything that fits, or a single byte when the source stalls right
\* after its first byte.
Deliveries(i, m) == {m} \cup (IF m > 1 /\ srcPos[i] = 0 THEN {1} ELSE {})

\* Faulty variant: the buffer is sent right after a read that returned
\* bytes, full or not.
PjoinReadPrompt(i) ==
    /\ ProcessAlive
    /\ wpc[i] = "read"
    /\ bytes_read[i] <= CHUNK_BUFFER_SIZE
    /\ ~srcEof[i]
    /\ LET m == Min(CHUNK_BUFFER_SIZE - bytes_read[i], OutLimit - srcPos[i]) IN
         /\ m > 0
         /\ \E len \in Deliveries(i, m) :
              /\ bytes_read' = [bytes_read EXCEPT ![i] = @ + len]
              /\ srcPos' = [srcPos EXCEPT ![i] = @ + len]
    /\ wpc' = [wpc EXCEPT ![i] = "send"]
    /\ UNCHANGED <<argVars, bytes_written, pc, stream_done, launched, in_progress_queue, cur, chunk,
                   written, outcome, srcEof, chan, cap, joined>>

\* pjoin: stdout.read(&mut buffer[bytes_read..CHUNK_BUFFER_SIZE]) returns
\* len > 0 inside `while bytes_read <= CHUNK_BUFFER_SIZE`.
PjoinRead(i) ==
    /\ ProcessAlive
    /\ wpc[i] = "read"
    /\ bytes_read[i] <= CHUNK_BUFFER_SIZE
    /\ ~srcEof[i]
    /\ LET m == Min(CHUNK_BUFFER_SIZE - bytes_read[i], OutLimit - srcPos[i]) IN
         /\ m > 0
         /\ \E len \in Deliveries(i, m) :
              /\ bytes_read' = [bytes_read EXCEPT ![i] = @ + len]
              /\ srcPos' = [srcPos EXCEPT ![i] = @ + len]
    /\ UNCHANGED <<argVars, bytes_written, pc, stream_done, launched, in_progress_queue, cur, chunk,
                   written, outcome, wpc, srcEof, chan, cap, joined>>

\* pjoin: read returns 0, because the buffer has no room left or because
\* the child closed its stdout: break, truncate, then wait for the child
\* if nothing was read, send the buffer otherwise.
PjoinReadZero(i) ==
    /\ ProcessAlive
    /\ wpc[i] = "read"
    /\ bytes_read[i] <= CHUNK_BUFFER_SIZE
    /\ srcEof' = [srcEof EXCEPT ![i] = @ \/ bytes_read[i] < CHUNK_BUFFER_SIZE]
    /\ wpc' = [wpc EXCEPT ![i] = IF bytes_read[i] = 0 THEN "wait" ELSE "send"]
    /\ UNCHANGED <<argVars, bytes_written, pc, stream_done, launched, in_progress_queue, cur, chunk,
                   written, outcome, srcPos, bytes_read, chan, cap, joined>>

\* pjoin: child_process.wait(); assert!(exit_code.success()); break.
\* The thread ends (tx is dropped) or panics (tx is dropped by unwinding).
PjoinWait(i) ==
    /\ ProcessAlive
    /\ wpc[i] = "wait"
    /\ \E success \in BOOLEAN :
         wpc' = [wpc EXCEPT ![i] = IF success THEN "done" ELSE "panicked"]
    /\ UNCHANGED <<argVars, bytes_written, pc, stream_done, launched, in_progress_queue, cur, chunk,
                   written, outcome, srcEof, srcPos, bytes_read, chan, cap,
                   joined>>

\* s3pjoin: get_object_builder.send().await.unwrap().
S3Fetch(i) ==
    /\ ProcessAlive
    /\ wpc[i] = "fetch"
    /\ \E ok \in BOOLEAN :
         wpc' = [wpc EXCEPT ![i] = IF ok THEN "body" ELSE "panicked"]
    /\ UNCHANGED <<argVars, bytes_written, pc, stream_done, launched, in_progress_queue, cur, chunk,
                   written, outcome, srcEof, srcPos, bytes_read, chan, cap,
                   joined>>

\* s3pjoin: response.body.try_next().await returns Some(bytes); the size of
\* bytes is the source's choice.
S3Body(i) ==
    /\ ProcessAlive
    /\ wpc[i] = "body"
    /\ LET m == OutLimit - srcPos[i] IN
         /\ m > 0
         /\ \E len \in Deliveries(i, m) \cup (IF m > CHUNK_BUFFER_SIZE THEN {CHUNK_BUFFER_SIZE} ELSE {}) :
              /\ bytes_read' = [bytes_read EXCEPT ![i] = len]
              /\ srcPos' = [srcPos EXCEPT ![i] = @ + len]
    /\ wpc' = [wpc EXCEPT ![i] = "send"]
    /\ UNCHANGED <<argVars, bytes_written, pc, stream_done, launched, in_progress_queue, cur, chunk,
                   written, outcome, srcEof, chan, cap, joined>>

\* s3pjoin: try_next returns None: the block ends and the thread returns.
S3BodyEnd(i) ==
    /\ ProcessAlive
    /\ wpc[i] = "body"
    /\ srcEof' = [srcEof EXCEPT ![i] = TRUE]
    /\ wpc' = [wpc EXCEPT ![i] = "done"]
    /\ UNCHANGED <<argVars, bytes_written, pc, stream_done, launched, in_progress_queue, cur, chunk,
                   written, outcome, srcPos, bytes_read, chan, cap, joined>>

\* s3pjoin: try_next returns Err (transfer error): unwrap panics.
S3BodyErr(i) ==
    /\ ProcessAlive
    /\ wpc[i] = "body"
    /\ wpc' = [wpc EXCEPT ![i] = "panicked"]
    /\ UNCHANGED <<argVars, bytes_written, pc, stream_done, launched, in_progress_queue, cur, chunk,
                   written, outcome, srcEof, srcPos, bytes_read, chan, cap,
                   joined>>

\* Faulty variant: the send returns without queueing the buffer.
SendLosingChunk(i) ==
    /\ ProcessAlive
    /\ wpc[i] = "send"
    /\ cap[i] > 0
    /\ Len(chan[i]) < cap[i]
    /\ bytes_read' = [bytes_read EXCEPT ![i] = 0]
    /\ wpc' = [wpc EXCEPT ![i] = AfterSend]
    /\ UNCHANGED <<argVars, bytes_written, pc, stream_done, launched, in_progress_queue, cur, chunk,
                   written, outcome, srcEof, srcPos, chan, cap, joined>>

\* Faulty variant: a worker can send only while the drain loop is on its
\* own channel.
SendInTurn(i) ==
    /\ ProcessAlive
    /\ wpc[i] = "send"
    /\ cap[i] > 0
    /\ Len(chan[i]) < cap[i]
    /\ cur = i
    /\ chan' = [chan EXCEPT ![i] = Append(@, Buffer(i))]
    /\ bytes_read' = [bytes_read EXCEPT ![i] = 0]
    /\ wpc' = [wpc EXCEPT ![i] = AfterSend]
    /\ UNCHANGED <<argVars, bytes_written, pc, stream_done, launched, in_progress_queue, cur, chunk,
                   written, outcome, srcEof, srcPos, cap, joined>>

\* tx.send(buffer) on a channel with a buffer: blocks while it is full.
Send(i) ==
    /\ ProcessAlive
    /\ wpc[i] = "send"
    /\ cap[i] > 0
    /\ Len(chan[i]) < cap[i]
    /\ chan' = [chan EXCEPT ![i] = Append(@, Buffer(i))]
    /\ bytes_read' = [bytes_read EXCEPT ![i] = 0]
    /\ wpc' = [wpc EXCEPT ![i] = AfterSend]
    /\ UNCHANGED <<argVars, bytes_written, pc, stream_done, launched, in_progress_queue, cur, chunk,
                   written, outcome, srcEof, srcPos, cap, joined>>

\* Faulty variant: the hand-over needs room in the channel, which a
\* channel of capacity 0 never has.
RendezvousNeedsRoom(i) ==
    /\ ProcessAlive
    /\ wpc[i] = "send"
    /\ cap[i] = 0
    /\ Len(chan[i]) < cap[i]
    /\ pc = "recv" /\ cur = i
    /\ chunk' = Buffer(i)
    /\ pc' = "write"
    /\ bytes_read' = [bytes_read EXCEPT ![i] = 0]
    /\ wpc' = [wpc EXCEPT ![i] = AfterSend]
    /\ UNCHANGED <<argVars, bytes_written, stream_done, launched, in_progress_queue, cur, written,
                   outcome, srcEof, srcPos, chan, cap, joined>>

\* tx.send(buffer) on sync_channel(0): a rendezvous; the chunk passes
\* straight to the main thread blocked in rx.recv().
Rendezvous(i) ==
    /\ ProcessAlive
    /\ wpc[i] = "send"
    /\ cap[i] = 0
    /\ pc = "recv" /\ cur = i
    /\ chunk' = Buffer(i)
    /\ pc' = "write"
    /\ bytes_read' = [bytes_read EXCEPT ![i] = 0]
    /\ wpc' = [wpc EXCEPT ![i] = AfterSend]
    /\ UNCHANGED <<argVars, bytes_written, stream_done, launched, in_progress_queue, cur, written,
                   outcome, srcEof, srcPos, chan, cap, joined>>

Worker(i) ==
    \/ PjoinRead(i)
    \/ PjoinReadZero(i)
    \/ PjoinWait(i)
    \/ S3Fetch(i)
    \/ S3Body(i)
    \/ S3BodyEnd(i)
    \/ S3BodyErr(i)
    \/ Send(i)
    \/ Rendezvous(i)

Next ==
    \/ ParseArgs
    \/ AdmitParseFail
    \/ AdmitLaunchFail
    \/ AdmitSpawn
    \/ StreamEnd
    \/ YieldNext
    \/ Recv
    \/ RecvDisconnected
    \/ WriteChunk
    \/ WriteFail
    \/ Join
    \/ \E i \in Tasks : Worker(i)

Spec == Init /\ [][Next]_vars

\* The runs in which every record is admitted, with the writer for a pipe
\* as well as the one for a file.
NextWriter ==
    \/ ParseArgs
    \/ AdmitSpawn
    \/ StreamEnd
    \/ YieldNext
    \/ Recv
    \/ RecvDisconnected
    \/ WriteChunk
    \/ WriteFail
    \/ Vmsplice
    \/ VmspliceErr
    \/ Join
    \/ \E i \in Tasks :
         \/ PjoinRead(i)
         \/ PjoinReadZero(i)
         \/ PjoinWait(i)
         \/ S3Fetch(i)
         \/ S3Body(i)
         \/ S3BodyEnd(i)
         \/ S3BodyErr(i)
         \/ Send(i)

SpecWriter == InitWriter /\ [][NextWriter]_vars

\* The runs of the file writer in which P >= 1, every record is admitted,
\* every source succeeds and the writer accepts every chunk, under fair
\* scheduling: the main thread and every worker thread, when it can take a
\* step, eventually takes one.
InitLive ==
    /\ parallel_count \in 1..MaxParallel
    /\ buffer_size \in BufferSizes
    /\ output_file = TRUE
    /\ records \in 0..MaxLiveTasks
    /\ InitRun

MainLive ==
    \/ ParseArgs
    \/ AdmitSpawn
    \/ StreamEnd
    \/ YieldNext
    \/ Recv
    \/ RecvDisconnected
    \/ WriteChunk
    \/ Join

WorkerLive(i) ==
    \/ PjoinRead(i)
    \/ PjoinReadZero(i)
    \/ PjoinWait(i) /\ wpc'[i] = "done"
    \/ S3Fetch(i) /\ wpc'[i] = "body"
    \/ S3Body(i)
    \/ S3BodyEnd(i)
    \/ Send(i)
    \/ Rendezvous(i)

NextLive == MainLive \/ \E i \in Tasks : WorkerLive(i)

SpecLive ==
    /\ InitLive
    /\ [][NextLive]_vars
    /\ WF_vars(MainLive)
    /\ \A i \in Tasks : WF_vars(WorkerLive(i))

\* ------------------------------------------------- derived quantities

\* Bytes passed to write_fn so far: the destination's and the rest of the
\* chunk write_fn is working on (or was working on when it failed).
Handed ==
    IF pc = "write" \/ (pc = "panicked" /\ outcome.kind = "writer")
      THEN Append(written, Slice(chunk, bytes_written, chunk.len - bytes_written))
      ELSE written

\* A chunk sequence with adjacent slices of one task's stream merged, so
\* that two sequences denote the same bytes iff they coalesce equally.
RECURSIVE Coalesce(_, _)
Coalesce(acc, s) ==
    IF s = <<>> THEN acc
    ELSE LET c == Head(s)
             n == Len(acc)
         IN IF c.len = 0 THEN Coalesce(acc, Tail(s))
            ELSE IF n > 0 /\ acc[n].task = c.task /\ acc[n].from + acc[n].len = c.from
              THEN Coalesce([acc EXCEPT ![n].len = @ + c.len], Tail(s))
              ELSE Coalesce(Append(acc, c), Tail(s))

Bytes(s) == Coalesce(<<>>, s)

\* The whole output of tasks 1..n, in input order.
RECURSIVE OutputOf(_)
OutputOf(n) ==
    IF n = 0 THEN <<>>
    ELSE IF srcPos[n] > 0
      THEN Append(OutputOf(n - 1), [task |-> n, from |-> 0, len |-> srcPos[n]])
      ELSE OutputOf(n - 1)

Launched(i) == wpc[i] # "none"
InFlight == {i \in Tasks : Launched(i) /\ ~joined[i]}

RECURSIVE SumLen(_)
SumLen(s) == IF s = <<>> THEN 0 ELSE Head(s).len + SumLen(Tail(s))
ChanBytes(i) == SumLen(chan[i])

\* Bytes buffered in the channels of the tasks in s.
RECURSIVE BufferedBytes(_)
BufferedBytes(s) ==
    IF s = {} THEN 0
    ELSE LET i == CHOOSE x \in s : TRUE
         IN ChanBytes(i) + BufferedBytes(s \ {i})

\* ------------------------------------------------------------- claims

\* C1 (order invariant): the bytes handed to the writer so far are the
\* whole output of task 1, then the whole output of task 2, and so on, up
\* to a prefix of the task being drained: every task's bytes start at its
\* first byte and are contiguous and in source order, and a byte of a task
\* is handed only when every earlier task has ended, was joined, and had
\* all of its output handed before.
C1_OrderInvariant ==
    LET m == Bytes(Handed) IN
      \A p \in 1..Len(m) :
        /\ m[p].from = 0
        /\ m[p].len <= srcPos[m[p].task]
        /\ p > 1 => m[p - 1].task < m[p].task
        /\ \A t \in 1..(m[p].task - 1) :
             /\ joined[t] /\ wpc[t] = "done" /\ srcEof[t]
             /\ \/ srcPos[t] = 0
                \/ \E q \in 1..(p - 1) : m[q].task = t /\ m[q].len = srcPos[t]

\* C1 witness: the worker of task 2 has ended, with output still buffered,
\* while task 1 is still running and part of its output has been written.
C1_Witness ==
    /\ wpc[2] = "done" /\ chan[2] # <<>>
    /\ wpc[1] \in {"read", "send", "body"}
    /\ cur = 1 /\ written # <<>>

\* C2 (completeness): when main returns, the destination holds exactly the
\* output of task 1, of task 2, ... of the last record, every byte once;
\* the right-hand side depends on neither parallel_count nor the schedule.
C2_Completeness ==
    pc = "done" =>
      /\ launched = records
      /\ \A t \in 1..records : srcEof[t] /\ wpc[t] = "done"
      /\ Bytes(written) = OutputOf(records)

\* C2 witness: a run of three tasks, each with the longest output, ended.
C2_Witness ==
    /\ pc = "done" /\ records = 3
    /\ \A t \in 1..3 : srcPos[t] = OutLimit

\* C3 (concurrency bound): at most parallel_count workers are launched and
\* not joined, and task i + parallel_count is launched only after task i
\* was joined.
C3_ConcurrencyBound ==
    /\ Cardinality(InFlight) <= parallel_count
    /\ \A i \in Tasks :
         (i + parallel_count \in Tasks /\ Launched(i + parallel_count)) => joined[i]

\* C3 witness: the window is full after it slid by one task.
C3_Witness ==
    /\ parallel_count = 2
    /\ Cardinality(InFlight) = 2
    /\ joined[1] /\ Launched(3)

\* C4 (backpressure bound, as claimed): the bytes buffered in one task's
\* channel never exceed buffer_size, for both producers.
C4_BackpressureBound == \A i \in Tasks : ChanBytes(i) <= buffer_size

\* C5 (run outcome, as claimed): the failure the run reports is that of the
\* first failing task: no earlier task's worker has failed.
C5_FirstFailureReported ==
    (pc = "panicked" /\ outcome.kind \in {"parse", "launch", "source"}) =>
      \A k \in 1..(outcome.task - 1) : wpc[k] # "panicked"

\* C6 (discard after failure): once the worker of task k has failed, no
\* byte of a task after k is or was handed to the writer.
C6_DiscardAfterFailure ==
    \A k \in Tasks :
      wpc[k] = "panicked" =>
        \A p \in 1..Len(Handed) : Handed[p].task <= k

\* C6 witness: task 1 failed after part of its output was written, the run
\* ended on that failure, and task 2 had chunks buffered.
C6_Witness ==
    /\ pc = "panicked" /\ outcome = [task |-> 1, kind |-> "source"]
    /\ written # <<>>
    /\ chan[2] # <<>>

\* C7 (join on failure, as claimed): when the run ends on a failure the
\* drain loop found at a join, every launched worker has been joined.
C7_AllJoinedOnFailure ==
    (pc = "panicked" /\ outcome.kind = "source") =>
      \A i \in Tasks : Launched(i) => joined[i]

\* C8 (parallel_count = 0 rejected at startup, as claimed): with
\* parallel_count = 0 the main thread never gets to poll the stream.
C8_ZeroRejected == parallel_count = 0 => pc \notin {"poll", "recv", "hung"}

\* C9 (channel capacity, amended): a channel holds at most
\* floor(buffer_size / CHUNK_BUFFER_SIZE) chunks, which is 0 when
\* buffer_size is below CHUNK_BUFFER_SIZE.
C9_CapacityIsFloor ==
    \A i \in Tasks :
      Launched(i) =>
        /\ cap[i] * CHUNK_BUFFER_SIZE <= buffer_size
        /\ buffer_size < (cap[i] + 1) * CHUNK_BUFFER_SIZE
        /\ Len(chan[i]) <= cap[i]

\* C9 witness: buffer_size is positive and below CHUNK_BUFFER_SIZE, and a
\* chunk went through the channel of capacity 0.
C9_Witness ==
    /\ buffer_size > 0 /\ buffer_size < CHUNK_BUFFER_SIZE
    /\ Launched(1) /\ cap[1] = 0
    /\ written # <<>>

\* C9 (as claimed): the capacity is max(1, floor(buffer_size /
\* CHUNK_BUFFER_SIZE)): never 0.
C9_CapacityAtLeastOne ==
    \A i \in Tasks :
      Launched(i) =>
        /\ cap[i] >= 1
        /\ buffer_size >= CHUNK_BUFFER_SIZE =>
             /\ cap[i] * CHUNK_BUFFER_SIZE <= buffer_size
             /\ buffer_size < (cap[i] + 1) * CHUNK_BUFFER_SIZE

\* C10 (empty input, as claimed): with no input record no worker is
\* launched, nothing is written and the run neither fails nor blocks, for
\* every parallel_count Args::parse lets through.
C10_EmptyInputSucceeds ==
    records = 0 =>
      /\ launched = 0
      /\ written = <<>>
      /\ pc \in {"args", "poll", "done"}

\* Bytes of task t the drain loop has taken out of its channel: what the
\* worker got from the source, less its buffer and the channel's content.
Received(t) == srcPos[t] - bytes_read[t] - ChanBytes(t)

\* The whole output of the tasks before c, then the first n bytes of task c.
DrainedOutput(c, n) ==
    IF c = 0 THEN <<>>
    ELSE IF n > 0
      THEN Append(OutputOf(c - 1), [task |-> c, from |-> 0, len |-> n])
      ELSE OutputOf(c - 1)

\* C11 (writer full-write equivalence): unless the writer failed, the
\* destination holds exactly the bytes the drain loop received, once and in
\* order, less the part of the current chunk still to be transferred; when
\* write_fn has returned nothing is left to transfer, so the pipe writer
\* and the file writer leave the same content after every write.
C11_FullWrite ==
    ~(pc = "panicked" /\ outcome.kind = "writer") =>
      /\ pc = "write" => bytes_written < chunk.len
      /\ pc # "write" => bytes_written = 0 /\ chunk = NoChunk
      /\ Bytes(written) =
           DrainedOutput(cur, IF cur = 0 THEN 0
                              ELSE Received(cur) - (chunk.len - bytes_written))

\* C11 witness: the pipe writer returned after it wrote a full chunk in
\* three transfers (one byte, one byte, the rest).
C11_Witness ==
    /\ ~output_file /\ pc = "recv"
    /\ Len(written) = 3
    /\ written[1].len = 1 /\ written[2].len = 1
    /\ Bytes(written) = <<[task |-> 1, from |-> 0, len |-> CHUNK_BUFFER_SIZE]>>

\* C12 (prompt forwarding, as claimed): a read that returns bytes without
\* filling the chunk is followed by the push of the chunk, not by another
\* read.
C12_PromptForwarding ==
    [][\A i \in Tasks :
         (/\ wpc[i] = "read"
          /\ bytes_read'[i] > bytes_read[i]
          /\ bytes_read'[i] < CHUNK_BUFFER_SIZE) => wpc'[i] = "send"]_vars

\* C12 (amended): the subprocess worker pushes a chunk only when the chunk
\* is full or a read returned 0 with bytes gathered; after a read that
\* leaves the chunk partly filled it reads again into the same chunk.
C12_FillBeforeSend ==
    variant = "pjoin" =>
      \A i \in Tasks :
        /\ wpc[i] = "send" =>
             /\ bytes_read[i] > 0
             /\ bytes_read[i] = CHUNK_BUFFER_SIZE \/ srcEof[i]
        /\ (bytes_read[i] > 0 /\ bytes_read[i] < CHUNK_BUFFER_SIZE /\ ~srcEof[i]) =>
             wpc[i] = "read"
        /\ \A p \in 1..Len(chan[i]) :
             \/ chan[i][p].len = CHUNK_BUFFER_SIZE
             \/ srcEof[i] /\ chan[i][p].from + chan[i][p].len = srcPos[i]

\* C12 witness: a read returned one byte of a source that goes on; the
\* worker holds the partly filled chunk, unsent, and is reading again.
C12_Witness ==
    /\ variant = "pjoin"
    /\ wpc[1] = "read" /\ bytes_read[1] = 1 /\ ~srcEof[1]
    /\ chan[1] = <<>> /\ written = <<>>

\* C13 (partial output of a failing task): when the run ends on the failure
\* of a task's worker, the channel of that task is empty and the
\* destination holds the whole output of the earlier tasks and every byte
\* the failing worker took from its source (it had pushed them all); the
\* drain loop goes to the join only with the channel empty and closed.
C13_PartialOutputDrained ==
    /\ (pc = "panicked" /\ outcome.kind = "source") =>
         /\ wpc[outcome.task] = "panicked"
         /\ bytes_read[outcome.task] = 0
         /\ chan[outcome.task] = <<>>
         /\ Bytes(written) = OutputOf(outcome.task)
    /\ pc = "join" => chan[cur] = <<>> /\ wpc[cur] \in {"done", "panicked"}

\* C13 witness: the run ended on the failure of task 1 after its worker
\* had pushed two chunks, and both are in the destination.
C13_Witness ==
    /\ pc = "panicked" /\ outcome = [task |-> 1, kind |-> "source"]
    /\ srcPos[1] = OutLimit
    /\ Bytes(written) = <<[task |-> 1, from |-> 0, len |-> OutLimit]>>

\* C14 (sliding admission window): while the drain loop holds the pair of
\* task cur (receiving, writing or joining), the launched tasks are exactly
\* 1 .. min(cur + parallel_count - 1, records): the window cur ..
\* cur + parallel_count - 1 is launched as far as there are records, and
\* nothing beyond it is; the queue holds the launched tasks after cur.
C14_SlidingWindow ==
    pc \in {"recv", "write", "join"} =>
      /\ parallel_count >= 1 /\ cur >= 1
      /\ launched = Min(cur + parallel_count - 1, records)
      /\ \A j \in Tasks : Launched(j) <=> j <= launched
      /\ \A j \in 1..(cur - 1) : joined[j]
      /\ in_progress_queue = [k \in 1..(launched - cur) |-> cur + k]

\* C14 witness: with parallel_count = 2 the drain loop is on task 2 and
\* task 3, not task 4 (there is none), is launched.
C14_Witness ==
    /\ parallel_count = 2 /\ records = 3
    /\ pc = "recv" /\ cur = 2
    /\ Launched(3) /\ ~joined[2]

C16_WriterErrorFatal ==
    outcome.kind = "writer" =>
      /\ pc = "panicked"
      /\ outcome.task = cur /\ ~joined[cur]
      /\ ~ENABLED NextWriter

\* C16 witness: the write of a chunk failed while a further chunk of the
\* same task waited in its channel and a later record was not yet launched.
C16_Witness ==
    /\ outcome.kind = "writer"
    /\ chan[cur] # <<>>
    /\ launched < records

\* C17 (memory ceiling, as claimed): the bytes held in the channels of the
\* launched and not yet joined tasks total at most P * buffer_size.
C17_MemoryCeiling == BufferedBytes(InFlight) <= parallel_count * buffer_size

\* a and b are coalesced chunk sequences: the bytes of a are a prefix of
\* the bytes of b.
IsPrefix(a, b) ==
    LET n == Len(a) IN
      \/ n = 0
      \/ /\ n <= Len(b)
         /\ \A k \in 1..(n - 1) : a[k] = b[k]
         /\ a[n].task = b[n].task /\ a[n].from = b[n].from /\ a[n].len <= b[n].len

\* C18 (correct prefix on failure): in every reachable state, the final
\* state of a failed run included, the destination's bytes are a prefix of
\* the concatenation, in input order, of the bytes the tasks' sources have
\* produced; and every step, a failing one included, leaves the bytes
\* already written in place, as a prefix of the destination's new content.
C18_CorrectPrefix ==
    /\ [](IsPrefix(Bytes(written), OutputOf(launched)))
    /\ [][IsPrefix(Bytes(written), Bytes(written'))]_vars

\* C18 witness: the run has failed at task 2, whose source failed after
\* producing output; the destination holds the output of task 1 and what
\* task 2 produced, and nothing of task 3, which had produced output too.
C18_Witness ==
    /\ pc = "panicked" /\ outcome = [task |-> 2, kind |-> "source"]
    /\ srcPos[1] > 0 /\ srcPos[2] > 0 /\ srcPos[3] > 0
    /\ Bytes(written) = DrainedOutput(2, srcPos[2])
    /\ Bytes(written) # OutputOf(launched)

\* The run has ended with success and every worker was joined.
Terminated ==
    /\ pc = "done" /\ outcome = NoOutcome
    /\ launched = records
    /\ \A i \in 1..records : joined[i] /\ wpc[i] = "done"

\* C19 (termination without deadlock): with P >= 1, any channel capacity
\* (0 included), sources that succeed after a finite output and a writer
\* that accepts every chunk, under fair scheduling of the main thread and
\* the workers the run eventually ends with success with every launched
\* worker joined; and in no reachable state short of that end are all the
\* threads blocked.
C19_Termination ==
    /\ <>Terminated
    /\ [](~Terminated => ENABLED NextLive)

\* C19 witness: a run with two records and channels of capacity 0 has ended
\* with success; both sources produced two chunks, all of them written.
C19_Witness ==
    /\ Terminated
    /\ records = 2 /\ cap[1] = 0 /\ cap[2] = 0
    /\ srcPos[1] = OutLimit /\ srcPos[2] = OutLimit
    /\ Bytes(written) = OutputOf(records)

====
